---- MODULE Spec2Model ----
(***************************************************************************)
(* Model of src/Xilinx/Common/Communication.c: the blocking SPI and I2C    *)
(* transfer functions of the Xilinx communication driver.                  *)
(*                                                                         *)
(* One call runs at a time (the driver is single threaded).  A call is a   *)
(* sequence of steps; every register access of the running call is        *)
(* appended to log as <<kind, register, value>>:                           *)
(*   <<"W", r, v>>  Xil_Out32(r, v)                                        *)
(*   <<"R", r, v>>  Xil_In32(r) of a data register, returning v            *)
(*   <<"P", r, k>>  one wait loop: k consecutive Xil_In32(r) of a status   *)
(*                  register                                               *)
(*   <<"D", "ms", k>>  TIME_DelayMs(k)                                     *)
(* Buffers are sequences: C element data[i] is data[i + 1] here.           *)
(***************************************************************************)
EXTENDS Integers, Sequences, FiniteSets

(***************************************************************************)
(* Bounds of the model and the sampled inputs.                             *)
(***************************************************************************)
\* Transfers of 0..MaxCount bytes are explored with every buffer content,
\* every wait outcome and every received byte.
MaxCount == 2

\* Long transfers: explored with one buffer content and a deterministic slave.
BigCounts == {16, 255}

TxBytes == {17, 34}      \* 0x11, 0x22: bytes a caller puts in a buffer
RxBytes == {165, 90}     \* 0xA5, 0x5A: bytes the receive register delivers
SlaveIds == {1, 2}       \* slaveDeviceId values
SlaveAddrs == {26, 80}   \* 0x1A, 0x50: I2C slave addresses
Bits == {0, 1}

(***************************************************************************)
(* Program constants.                                                      *)
(***************************************************************************)
SPI_TIMEOUT == 65535         \* 0xFFFF
I2C_TIMEOUT == 16777215      \* 0xFFFFFF
SRR_RESET == 10              \* 0x0000000A
I2C_CR_RESET == 2
I2C_CR_ENABLE == 1
I2C_CR_DISABLE == 0
I2C_PIRQ_MAX == 15           \* 0x0F
I2C_ADDR_WRITE == 256        \* 0x100
I2C_ADDR_READ == 257         \* 0x101
I2C_STOP == 512              \* 0x200
SETTLE_MS == 10

\* Bit positions of the SPI control register (Communication.h).
LSBFirst == 9
MasterTranInh == 8
ManualSlaveAssEn == 7
RxFifoReset == 6
TxFifoReset == 5
CHPA == 4
CPOL == 3
Master == 2
SPE == 1
LOOP == 0

(***************************************************************************)
(* 32-bit and 8-bit arithmetic.                                            *)
(*                                                                         *)
(* A u32 is held as the integer with the same 32 bits in two's complement: *)
(* 0 .. 0x7FFFFFFF as themselves, 0x80000000 .. 0xFFFFFFFF as v - 2^32, so *)
(* 0xFFFFFFFF is -1 and 0xFFFFFFFE is -2.  The conversions between int and *)
(* u32 keep the bits, hence are the identity on this representation.       *)
(***************************************************************************)
Pow2(n) == 2 ^ n

MaxInt32 == 1073741824 + 1073741823       \* 0x7FFFFFFF
MinInt32 == 0 - MaxInt32 - 1

\* ~v
Not32(v) == 0 - v - 1

AllOnes == Not32(0)          \* 0xFFFFFFFF

\* v - 1 in u32 arithmetic: 0 wraps to 0xFFFFFFFF.
Dec32(v) == IF v = MinInt32 THEN MaxInt32 ELSE v - 1

\* a < b and a <= b between two u32.
ULt(a, b) == IF (a >= 0) = (b >= 0) THEN a < b ELSE a >= 0
ULe(a, b) == a = b \/ ULt(a, b)

\* Bit b (0 .. 30) of v.
Bit(v, b) == (v \div Pow2(b)) % 2

\* v |= (1 << b)
SetBit(v, b) == IF Bit(v, b) = 1 THEN v ELSE v + Pow2(b)

\* v &= ~(1 << b)
ClearBit(v, b) == IF Bit(v, b) = 1 THEN v - Pow2(b) ELSE v

\* a | b for a, b >= 0, bit by bit.
RECURSIVE BitOr(_, _)
BitOr(a, b) ==
    IF a = 0 THEN b
    ELSE IF b = 0 THEN a
    ELSE (IF a % 2 = 1 \/ b % 2 = 1 THEN 1 ELSE 0)
         + 2 * BitOr(a \div 2, b \div 2)

\* a & b for a, b >= 0, bit by bit.
RECURSIVE BitAnd(_, _)
BitAnd(a, b) ==
    IF a = 0 \/ b = 0 THEN 0
    ELSE (IF a % 2 = 1 /\ b % 2 = 1 THEN 1 ELSE 0)
         + 2 * BitAnd(a \div 2, b \div 2)

\* v << n in int arithmetic (no operand here reaches the sign bit).
Shl(v, n) == v * Pow2(n)

\* !v
LNot(v) == IF v = 0 THEN 1 ELSE 0

\* Conversion to unsigned char.
UChar(v) == v % 256

\* Conversion to char, the return type of SPI_Init, SPI_Write and SPI_Read.
\* char is a signed 8-bit type on the builds of this driver (MicroBlaze GCC,
\* and the x86 hosts its tests run on): values 128 .. 255 become v - 256.
CharOf(v) == ((v + 128) % 256) - 128

Max(a, b) == IF a < b THEN b ELSE a

(***************************************************************************)
(* Inputs.                                                                 *)
(***************************************************************************)
Counts == (0 .. MaxCount) \cup BigCounts

\* Content of a long buffer: all elements differ (37 is odd).
Ramp(n) == [i \in 1 .. n |-> (i * 37 + 11) % 256]

\* The byte a deterministic SPI slave delivers for element i of a long transfer.
RxRamp(i) == (i * 91 + 5) % 256

\* The buffers a caller passes for a transfer of n bytes.  The functions read
\* data[0] before they look at n, so a buffer holds at least one element.
Buffers(n) ==
    IF n <= MaxCount THEN [1 .. Max(n, 1) -> TxBytes] ELSE {Ramp(n)}

\* How many consecutive polls of a wait see the status flag still busy: none,
\* as many as the counter allows (ready on the last poll), or more (a stall).
BusyChoices(n, ceiling) ==
    IF n <= MaxCount THEN {0, ceiling, ceiling + 1} ELSE {0, ceiling + 1}

(***************************************************************************)
(* State.                                                                  *)
(***************************************************************************)
VARIABLES
    configValue,   \* static u32 configValue
    reg,           \* last value written to SPICR and SPISSR
    pc,            \* position of the caller / the running call
    op,            \* the running function
    slave,         \* slaveDeviceId or slaveAddress
    bytesNumber,   \* bytesNumber
    stopBit,       \* stopBit
    data0,         \* the buffer as the caller passed it
    data,          \* the buffer
    cfgValue,      \* local cfgValue
    rxCnt,         \* local rxCnt
    txCnt,         \* local txCnt
    timeout,       \* local timeout
    log,           \* register accesses of the running call
    ret,           \* value returned
    slaveMem,      \* loopback I2C slave: data bytes of the last write, kept
                   \* while the calls that follow the write are loopback reads
    txBuf,         \* the buffer the caller gave to that I2C_Write
    lb,            \* the running I2C_Read is served by the loopback slave
    stall,         \* the status was busy on every poll of the last wait
    initArgs,      \* lsbFirst, clockPol, clockEdg of the running SPI_Init
    touched,       \* buffer indices the running call has read or written
    answers        \* what the peripheral answered to the running call: for each
                   \* wait the number of polls it kept busy, for each pop the value

vars == <<configValue, reg, pc, op, slave, bytesNumber, stopBit, data0, data,
          cfgValue, rxCnt, txCnt, timeout, log, ret, slaveMem, txBuf, lb,
          stall, initArgs, touched,
          answers>>

callVars == <<op, slave, bytesNumber, stopBit, data0, stall, initArgs>>
i2cEnv == <<slaveMem, txBuf, lb>>

\* No value written yet (no register of the model is ever written 0x80000000).
Unwritten == MinInt32

Init ==
    /\ configValue = 0
    /\ reg = [SPICR |-> Unwritten, SPISSR |-> Unwritten]
    /\ pc = "idle"
    /\ op = "none"
    /\ slave = 0
    /\ bytesNumber = 0
    /\ stopBit = 0
    /\ data0 = <<>>
    /\ data = <<>>
    /\ cfgValue = 0
    /\ rxCnt = 0
    /\ txCnt = 0
    /\ timeout = 0
    /\ log = <<>>
    /\ ret = 0
    /\ slaveMem = <<>>
    /\ txBuf = <<>>
    /\ lb = FALSE
    /\ initArgs = <<>>
    /\ touched = {}
    /\ answers = <<>>
    /\ stall = FALSE

(***************************************************************************)
(* Register access.                                                        *)
(***************************************************************************)
Out32(lg, r, v) == Append(lg, <<"W", r, v>>)
In32(lg, r, v) == Append(lg, <<"R", r, v>>)
Poll(lg, r, k) == Append(lg, <<"P", r, k>>)
DelayMs(lg, k) == Append(lg, <<"D", "ms", k>>)

(***************************************************************************)
(* The wait loops                                                          *)
(*     do { s = Xil_In32(SR); } while (busy(s) && timeout--);              *)
(*     while (busy(Xil_In32(SR)) && (timeout--));                          *)
(* run against a status that is busy on the first `busy` polls and ready   *)
(* afterwards.  A poll that sees busy evaluates timeout--: with timeout    *)
(* above 0 the loop goes on with timeout - 1, with timeout at 0 the loop   *)
(* ends and the decrement wraps the u32 to 0xFFFFFFFF.  A poll that sees   *)
(* ready ends the loop without the decrement.  The loop of 0xFFFF or       *)
(* 0xFFFFFF iterations is given by its result.                             *)
(***************************************************************************)
\* Mutant: while (busy && --timeout), which ends at 0 and never wraps.
WaitLoopPreDecrement(t, busy) ==
    IF busy < t
    THEN [timeout |-> t - busy, polls |-> busy + 1]
    ELSE [timeout |-> 0, polls |-> t]

\* Mutant: while (timeout-- && busy): the counter is decremented before the
\* status is looked at, so a status ready with the counter at 0 still wraps it.
WaitLoopDecrementFirst(t, busy) ==
    IF busy < t THEN [timeout |-> t - busy - 1, polls |-> busy + 1]
    ELSE [timeout |-> Dec32(0), polls |-> t + 1]

\* do { status = Xil_In32(...); } while (busy && timeout--);
WaitLoop(t, busy) ==
    IF busy <= t
    THEN [timeout |-> t - busy, polls |-> busy + 1]
    ELSE [timeout |-> Dec32(0), polls |-> t + 1]

\* if (timeout == -1): the int -1 is converted to u32.
TimedOut(t) == t = 0 - 1

\* Mutant: the counter is not set back after a wait that succeeded.
ResetTimeoutKept(t, ceiling) == t

\* timeout = 0xFFFF;  timeout = 0xFFFFFF;  after a wait that succeeded
ResetTimeout(t, ceiling) == ceiling

(***************************************************************************)
(* SPI_Init.                                                               *)
(***************************************************************************)
SPI_ConfigWord(lsbFirst, clockPol, clockEdg) ==
    BitOr(Shl(lsbFirst, LSBFirst),
    BitOr(Shl(1, MasterTranInh),
    BitOr(Shl(1, ManualSlaveAssEn),
    BitOr(Shl(1, RxFifoReset),
    BitOr(Shl(0, TxFifoReset),
    BitOr(Shl(LNot(clockEdg), CHPA),
    BitOr(Shl(clockPol, CPOL),
    BitOr(Shl(1, Master),
    BitOr(Shl(1, SPE),
          Shl(0, LOOP))))))))))

\* configValue |= ...
SPI_InitConfig(old, lsbFirst, clockPol, clockEdg) ==
    BitOr(old, SPI_ConfigWord(lsbFirst, clockPol, clockEdg))

SPI_Init(lsbFirst, clockPol, clockEdg) ==
    /\ pc = "idle"
    /\ configValue' = SPI_InitConfig(configValue, lsbFirst, clockPol, clockEdg)
    /\ reg' = [SPICR |-> configValue', SPISSR |-> AllOnes]
    /\ log' = Out32(Out32(<<>>, "SPISSR", AllOnes), "SPICR", configValue')
    /\ op' = "SPI_Init"
    /\ ret' = CharOf(0)
    /\ pc' = "done"
    /\ slaveMem' = <<>>
    /\ txBuf' = <<>>
    /\ initArgs' = <<lsbFirst, clockPol, clockEdg>>
    /\ UNCHANGED <<slave, bytesNumber, stopBit, data0, data, cfgValue, rxCnt,
                   txCnt, timeout, lb, stall, touched,
                   answers>>

(***************************************************************************)
(* SPI_Write and SPI_Read: the two functions have the same body.           *)
(***************************************************************************)
SpiOps == {"SPI_Write", "SPI_Read"}

\* Mutant: the inhibit bit is not set.
SPI_InhibitDropped(cfg) == cfg

\* cfgValue |= (1 << MasterTranInh);   disable the master transactions
SPI_Inhibit(cfg) == SetBit(cfg, MasterTranInh)

\* cfgValue &= ~(1 << MasterTranInh);  enable the master transactions
SPI_Enable(cfg) == ClearBit(cfg, MasterTranInh)

\* Mutant: the function works on the static itself.
SPI_StaticAliased(static, local) == local

\* u32 cfgValue = configValue;  the function changes the copy only, the static
\* is not assigned.
SPI_Static(static, local) == static

\* ~(0x00000001 << (0)), passed as u32.
SPI_SlaveSelect(slaveDeviceId) == Not32(Shl(1, 0))

\* Mutant: while (txCnt <= bytesNumber - 1); bytesNumber - 1 is the int -1 for
\* bytesNumber 0, which the comparison converts to 0xFFFFFFFF.
SPI_LoopCondMinusOne(tx, n) == ULe(tx, n - 1)

\* Mutant: while (txCnt <= bytesNumber).
SPI_LoopCondInclusive(tx, n) == ULe(tx, n)

\* while (txCnt < bytesNumber)
SPI_LoopCond(tx, n) == ULt(tx, n)

\* Mutant: the next byte is pushed before txCnt++, from the element the
\* received byte has just been stored in.
SPI_TxByteBeforeIncrement(d, tx) == d[Max(tx, 1)]

\* data[txCnt], the byte written to SPIDTR (data[0] before the loop).
SPI_TxByte(d, tx) == d[tx + 1]

\* return bytesNumber;  in a function returning char
SPI_RetOk(n) == CharOf(n)

\* return -1;  in a function returning char
SPI_RetTimeout == CharOf(0 - 1)

\* The slave's answers during a long transfer are fixed.
SpiRx(n, i) == IF n <= MaxCount THEN RxBytes ELSE {RxRamp(i)}

SPI_Begin(o, slaveDeviceId, buf, n) ==
    /\ pc = "idle"
    /\ op' = o
    /\ slave' = slaveDeviceId
    /\ bytesNumber' = n
    /\ stopBit' = 0
    /\ data0' = buf
    /\ data' = buf
    /\ cfgValue' = SPI_Enable(configValue)
    /\ rxCnt' = 0
    /\ txCnt' = 0
    /\ timeout' = SPI_TIMEOUT
    /\ log' = Out32(Out32(Out32(Out32(<<>>,
                  "SPICR", configValue),
                  "SPISSR", SPI_SlaveSelect(slaveDeviceId)),
                  "SPIDTR", SPI_TxByte(buf, 0)),
                  "SPICR", cfgValue')
    /\ reg' = [SPICR |-> cfgValue', SPISSR |-> SPI_SlaveSelect(slaveDeviceId)]
    /\ ret' = 0
    /\ pc' = IF SPI_LoopCond(0, n) THEN "spi_wait" ELSE "spi_end"
    /\ slaveMem' = <<>>
    /\ txBuf' = <<>>
    /\ stall' = FALSE
    /\ initArgs' = <<>>
    /\ configValue' = SPI_Static(configValue, cfgValue')
    /\ touched' = {0}
    /\ answers' = <<>>
    /\ UNCHANGED lb

\* do { SPIStatus = Xil_In32(SPISR); } while (((SPIStatus & 0x01) == 1) && timeout--);
SPI_Wait(busy) ==
    /\ pc = "spi_wait"
    /\ LET w == WaitLoop(timeout, busy) IN
        /\ timeout' = w.timeout
        /\ log' = Poll(log, "SPISR", w.polls)
        /\ stall' = (busy >= w.polls)
        /\ answers' = Append(answers, busy)
        /\ UNCHANGED <<initArgs, touched>>
        /\ pc' = IF TimedOut(w.timeout) THEN "spi_timeout" ELSE "spi_xfer"
    /\ UNCHANGED <<configValue, reg, op, slave, bytesNumber, stopBit, data0,
                   data, cfgValue, rxCnt, txCnt, ret, i2cEnv>>

\* Mutant: the timeout path does not reset the core.
SPI_RecoverNoReset(lg, cfg) ==
    Out32(Out32(Out32(lg,
        "SPICR", cfg),
        "SPISSR", AllOnes),
        "SPICR", cfg)

\* The four writes of the timeout path.
SPI_Recover(lg, cfg) ==
    Out32(Out32(Out32(Out32(lg,
        "SPICR", cfg),
        "SRR", SRR_RESET),
        "SPISSR", AllOnes),
        "SPICR", cfg)

\* if (timeout == -1) { ... return -1; }
SPI_Timeout ==
    /\ pc = "spi_timeout"
    /\ cfgValue' = SPI_Inhibit(cfgValue)
    /\ log' = SPI_Recover(log, cfgValue')
    /\ reg' = [SPICR |-> cfgValue', SPISSR |-> AllOnes]
    /\ ret' = SPI_RetTimeout
    /\ pc' = "done"
    /\ configValue' = SPI_Static(configValue, cfgValue')
    /\ UNCHANGED <<callVars, data, rxCnt, txCnt, timeout, i2cEnv, touched,
                   answers>>

\* timeout = 0xFFFF; receive one byte, count, send the next byte.
SPI_Xfer(rx) ==
    /\ pc = "spi_xfer"
    /\ timeout' = ResetTimeout(timeout, SPI_TIMEOUT)
    /\ LET recv == ULt(rxCnt, bytesNumber)
           d1 == IF recv THEN [data EXCEPT ![rxCnt + 1] = UChar(rx)] ELSE data
           l1 == IF recv THEN In32(log, "SPIDRR", rx) ELSE log
           tx1 == txCnt + 1
           more == ULt(tx1, bytesNumber)
           inh == SPI_Inhibit(cfgValue)
           go == SPI_Enable(inh)
       IN
        /\ data' = d1
        /\ answers' = Append(answers, rx)
        /\ touched' = touched \cup (IF recv THEN {rxCnt} ELSE {})
                               \cup (IF more THEN {tx1} ELSE {})
        /\ rxCnt' = IF recv THEN rxCnt + 1 ELSE rxCnt
        /\ txCnt' = tx1
        /\ cfgValue' = IF more THEN go ELSE cfgValue
        /\ log' = IF more
                  THEN Out32(Out32(Out32(l1,
                           "SPICR", inh),
                           "SPIDTR", SPI_TxByte(d1, tx1)),
                           "SPICR", go)
                  ELSE l1
        /\ reg' = IF more THEN [reg EXCEPT !.SPICR = go] ELSE reg
        /\ pc' = IF SPI_LoopCond(tx1, bytesNumber) THEN "spi_wait" ELSE "spi_end"
    /\ configValue' = SPI_Static(configValue, cfgValue')
    /\ UNCHANGED <<callVars, ret, i2cEnv>>

\* After the loop: inhibit, deselect, return bytesNumber.
SPI_End ==
    /\ pc = "spi_end"
    /\ cfgValue' = SPI_Inhibit(cfgValue)
    /\ log' = Out32(Out32(log, "SPICR", cfgValue'), "SPISSR", AllOnes)
    /\ reg' = [SPICR |-> cfgValue', SPISSR |-> AllOnes]
    /\ ret' = SPI_RetOk(bytesNumber)
    /\ pc' = "done"
    /\ configValue' = SPI_Static(configValue, cfgValue')
    /\ UNCHANGED <<callVars, data, rxCnt, txCnt, timeout, i2cEnv, touched,
                   answers>>

(***************************************************************************)
(* I2C_Init.                                                               *)
(***************************************************************************)
I2C_Init ==
    /\ pc = "idle"
    /\ log' = Out32(Out32(Out32(Out32(<<>>,
                  "CR", I2C_CR_DISABLE),
                  "RX_FIFO_PIRQ", I2C_PIRQ_MAX),
                  "CR", I2C_CR_RESET),
                  "CR", I2C_CR_ENABLE)
    /\ op' = "I2C_Init"
    /\ ret' = UChar(0)
    /\ pc' = "done"
    /\ UNCHANGED <<configValue, reg, slave, bytesNumber, stopBit, data0, data,
                   cfgValue, rxCnt, txCnt, timeout, i2cEnv, stall, initArgs,
                   touched, answers>>

(***************************************************************************)
(* I2C_Read.                                                               *)
(***************************************************************************)
\* Mutant: the first push follows the enable without the settle delay.
I2C_EntryNoSettle ==
    Out32(Out32(<<>>, "CR", I2C_CR_RESET), "CR", I2C_CR_ENABLE)

\* Xil_Out32(CR, 0x002); Xil_Out32(CR, 0x001); TIME_DelayMs(10);
\* the first statements of I2C_Read and of I2C_Write.
I2C_Entry ==
    DelayMs(Out32(Out32(<<>>, "CR", I2C_CR_RESET), "CR", I2C_CR_ENABLE),
            SETTLE_MS)

\* (0x101 | (slaveAddress << 1))
I2C_ReadAddrWord(slaveAddress) == BitOr(I2C_ADDR_READ, Shl(slaveAddress, 1))

\* 0x200 + bytesNumber
I2C_ReadLenWord(n, sb) == I2C_STOP + n

\* while (rxCnt < bytesNumber)
I2C_ReadLoopCond(rx, n) == ULt(rx, n)

\* Mutant: the received byte is masked to 7 bits.
I2C_RxByte7(v) == UChar(BitAnd(v, 127))

\* dataBuffer[rxCnt] = Xil_In32(RX_FIFO) & 0xFFFF;
I2C_RxByte(v) == UChar(BitAnd(v, 65535))

\* Mutant: the failure value of the @return comment, 0xFF, is returned.
I2C_ReadRetNak(rx) == 255

\* return rxCnt;  in a function returning unsigned char
I2C_ReadRet(rx) == UChar(rx)

\* The loopback slave has a byte ready at once while it holds one for this
\* position, and stalls afterwards; any other slave is free.
I2C_Busy(n, loop, rx, mem) ==
    IF loop
    THEN (IF rx < Len(mem) THEN {0} ELSE {I2C_TIMEOUT + 1})
    ELSE BusyChoices(n, I2C_TIMEOUT)

I2C_Rx(loop, rx, mem) ==
    IF loop /\ rx < Len(mem) THEN {mem[rx + 1]} ELSE RxBytes

\* A long read is explored against the loopback slave only.
I2C_Loop(n, mem) ==
    IF n <= MaxCount
    THEN (IF mem = <<>> THEN {FALSE} ELSE {FALSE, TRUE})
    ELSE (IF mem = <<>> THEN {} ELSE {TRUE})

I2C_Read_Begin(slaveAddress, buf, n, sb, loop) ==
    /\ pc = "idle"
    /\ op' = "I2C_Read"
    /\ slave' = slaveAddress
    /\ bytesNumber' = n
    /\ stopBit' = sb
    /\ data0' = buf
    /\ data' = buf
    /\ lb' = loop
    /\ rxCnt' = 0
    /\ timeout' = I2C_TIMEOUT
    /\ log' = Out32(Out32(I2C_Entry,
                  "TX_FIFO", I2C_ReadAddrWord(slaveAddress)),
                  "TX_FIFO", I2C_ReadLenWord(n, sb))
    /\ ret' = 0
    /\ pc' = IF I2C_ReadLoopCond(0, n) THEN "i2cr_wait" ELSE "i2cr_end"
    /\ slaveMem' = IF loop THEN slaveMem ELSE <<>>
    /\ txBuf' = IF loop THEN txBuf ELSE <<>>
    /\ stall' = FALSE
    /\ initArgs' = <<>>
    /\ touched' = {}
    /\ answers' = <<>>
    /\ UNCHANGED <<configValue, reg, cfgValue, txCnt>>

\* while ((Xil_In32(SR) & 0x00000040) && (timeout--));
I2C_Read_Wait(busy) ==
    /\ pc = "i2cr_wait"
    /\ LET w == WaitLoop(timeout, busy) IN
        /\ timeout' = w.timeout
        /\ log' = Poll(log, "SR", w.polls)
        /\ stall' = (busy >= w.polls)
        /\ answers' = Append(answers, busy)
        /\ UNCHANGED <<initArgs, touched>>
        /\ pc' = IF TimedOut(w.timeout) THEN "i2cr_timeout" ELSE "i2cr_pop"
    /\ UNCHANGED <<configValue, reg, op, slave, bytesNumber, stopBit, data0,
                   data, cfgValue, rxCnt, txCnt, ret, i2cEnv>>

\* if (timeout == -1) { ... return rxCnt; }
I2C_Read_Timeout ==
    /\ pc = "i2cr_timeout"
    /\ log' = Out32(Out32(Out32(Out32(log,
                  "CR", I2C_CR_DISABLE),
                  "RX_FIFO_PIRQ", I2C_PIRQ_MAX),
                  "CR", I2C_CR_RESET),
                  "CR", I2C_CR_ENABLE)
    /\ ret' = I2C_ReadRet(rxCnt)
    /\ pc' = "done"
    /\ UNCHANGED <<configValue, reg, callVars, data, cfgValue, rxCnt, txCnt,
                   timeout, i2cEnv, touched, answers>>

\* timeout = 0xFFFFFF; dataBuffer[rxCnt] = ...; rxCnt++;
I2C_Read_Pop(rx) ==
    /\ pc = "i2cr_pop"
    /\ timeout' = ResetTimeout(timeout, I2C_TIMEOUT)
    /\ data' = [data EXCEPT ![rxCnt + 1] = I2C_RxByte(rx)]
    /\ log' = In32(log, "RX_FIFO", rx)
    /\ rxCnt' = rxCnt + 1
    /\ pc' = IF I2C_ReadLoopCond(rxCnt', bytesNumber)
             THEN "i2cr_wait" ELSE "i2cr_end"
    /\ answers' = Append(answers, rx)
    /\ touched' = touched \cup {rxCnt}
    /\ UNCHANGED <<configValue, reg, callVars, cfgValue, txCnt, ret, i2cEnv>>

\* TIME_DelayMs(10); return rxCnt;
I2C_Read_End ==
    /\ pc = "i2cr_end"
    /\ log' = DelayMs(log, SETTLE_MS)
    /\ ret' = I2C_ReadRet(rxCnt)
    /\ pc' = "done"
    /\ UNCHANGED <<configValue, reg, callVars, data, cfgValue, rxCnt, txCnt,
                   timeout, i2cEnv, touched, answers>>

(***************************************************************************)
(* I2C_Write.                                                              *)
(***************************************************************************)
\* (0x100 | (slaveAddress << 1))
I2C_WriteAddrWord(slaveAddress) == BitOr(I2C_ADDR_WRITE, Shl(slaveAddress, 1))

\* Mutant: the stop marker follows the stopBit argument.
I2C_TxWordStopArg(buf, tx, n, sb) ==
    IF tx = n - 1 /\ sb = 1 THEN BitOr(I2C_STOP, buf[tx + 1]) ELSE buf[tx + 1]

\* Mutant: the stop marker is put on the first byte.
I2C_TxWordStopFirst(buf, tx, n, sb) ==
    IF tx = 0 THEN BitOr(I2C_STOP, buf[tx + 1]) ELSE buf[tx + 1]

\* (txCnt == bytesNumber - 1) ? (0x200 | dataBuffer[txCnt]) : dataBuffer[txCnt]
\* bytesNumber - 1 is an int, compared with the u32 txCnt.
I2C_TxWord(buf, tx, n, sb) ==
    IF tx = n - 1 THEN BitOr(I2C_STOP, buf[tx + 1]) ELSE buf[tx + 1]

\* Mutant: while (txCnt < bytesNumber - 1), one byte short.
I2C_WriteLoopShort(tx, n) == ULt(tx, n - 1)

\* while (txCnt < bytesNumber)
I2C_WriteLoopCond(tx, n) == ULt(tx, n)

\* return txCnt;  in a function returning unsigned char
I2C_WriteRet(tx) == UChar(tx)

\* The loopback slave keeps the low 8 bits of a data word; the word's upper
\* bits steer the bus (start, stop).
SlaveStore(mem, word) == Append(mem, word % 256)

I2C_Write_Begin(slaveAddress, buf, n, sb) ==
    /\ pc = "idle"
    /\ op' = "I2C_Write"
    /\ slave' = slaveAddress
    /\ bytesNumber' = n
    /\ stopBit' = sb
    /\ data0' = buf
    /\ data' = buf
    /\ txCnt' = 0
    /\ log' = Out32(I2C_Entry, "TX_FIFO", I2C_WriteAddrWord(slaveAddress))
    /\ ret' = 0
    /\ pc' = IF I2C_WriteLoopCond(0, n) THEN "i2cw_push" ELSE "i2cw_end"
    /\ slaveMem' = <<>>
    /\ txBuf' = SubSeq(buf, 1, n)
    /\ stall' = FALSE
    /\ initArgs' = <<>>
    /\ touched' = {}
    /\ answers' = <<>>
    /\ UNCHANGED <<configValue, reg, cfgValue, rxCnt, timeout, lb>>

\* Xil_Out32(TX_FIFO, ...); txCnt++;
I2C_Write_Push ==
    /\ pc = "i2cw_push"
    /\ LET word == I2C_TxWord(data, txCnt, bytesNumber, stopBit) IN
        /\ log' = Out32(log, "TX_FIFO", word)
        /\ slaveMem' = SlaveStore(slaveMem, word)
    /\ UNCHANGED answers
    /\ touched' = touched \cup {txCnt}
    /\ txCnt' = txCnt + 1
    /\ pc' = IF I2C_WriteLoopCond(txCnt', bytesNumber)
             THEN "i2cw_push" ELSE "i2cw_end"
    /\ UNCHANGED <<configValue, reg, callVars, data, cfgValue, rxCnt, timeout,
                   ret, txBuf, lb>>

\* TIME_DelayMs(10); return txCnt;
I2C_Write_End ==
    /\ pc = "i2cw_end"
    /\ log' = DelayMs(log, SETTLE_MS)
    /\ ret' = I2C_WriteRet(txCnt)
    /\ pc' = "done"
    /\ UNCHANGED <<configValue, reg, callVars, data, cfgValue, rxCnt, txCnt,
                   timeout, i2cEnv, touched, answers>>

(***************************************************************************)
(* The caller takes the result; the locals of the call are gone.           *)
(***************************************************************************)
Return ==
    /\ pc = "done"
    /\ pc' = "idle"
    /\ op' = "none"
    /\ slave' = 0
    /\ bytesNumber' = 0
    /\ stopBit' = 0
    /\ data0' = <<>>
    /\ data' = <<>>
    /\ cfgValue' = 0
    /\ rxCnt' = 0
    /\ txCnt' = 0
    /\ timeout' = 0
    /\ log' = <<>>
    /\ ret' = 0
    /\ lb' = FALSE
    /\ stall' = FALSE
    /\ initArgs' = <<>>
    /\ touched' = {}
    /\ answers' = <<>>
    /\ UNCHANGED <<configValue, reg, slaveMem, txBuf>>

SpiNext ==
    \/ \E l \in Bits, p \in Bits, e \in Bits : SPI_Init(l, p, e)
    \/ \E o \in SpiOps, s \in SlaveIds, n \in Counts :
           \E buf \in Buffers(n) : SPI_Begin(o, s, buf, n)
    \/ \E busy \in BusyChoices(bytesNumber, SPI_TIMEOUT) : SPI_Wait(busy)
    \/ SPI_Timeout
    \/ \E rx \in SpiRx(bytesNumber, rxCnt) : SPI_Xfer(rx)
    \/ SPI_End

I2cNext ==
    \/ I2C_Init
    \/ \E a \in SlaveAddrs, n \in Counts, sb \in Bits :
           \E buf \in Buffers(n), loop \in I2C_Loop(n, slaveMem) :
               I2C_Read_Begin(a, buf, n, sb, loop)
    \/ \E busy \in I2C_Busy(bytesNumber, lb, rxCnt, slaveMem) :
           I2C_Read_Wait(busy)
    \/ I2C_Read_Timeout
    \/ \E rx \in I2C_Rx(lb, rxCnt, slaveMem) : I2C_Read_Pop(rx)
    \/ I2C_Read_End
    \/ \E a \in SlaveAddrs, n \in Counts, sb \in Bits :
           \E buf \in Buffers(n) : I2C_Write_Begin(a, buf, n, sb)
    \/ I2C_Write_Push
    \/ I2C_Write_End

Next ==
    \/ SpiNext
    \/ I2cNext
    \/ Return

Spec == Init /\ [][Next]_vars

(***************************************************************************)
(* Observations on a call.                                                 *)
(***************************************************************************)
\* The log entries of kind k on register r, in order.
Entries(lg, k, r) ==
    LET T(e) == e[1] = k /\ e[2] = r IN SelectSeq(lg, T)

Values(es) == [i \in 1 .. Len(es) |-> es[i][3]]

\* The values written to register r, and the values read from it.
Pushed(lg, r) == Values(Entries(lg, "W", r))
Popped(lg, r) == Values(Entries(lg, "R", r))

\* The wait loops of the call, and the status reads they made in all.
Waits(lg) == LET T(e) == e[1] = "P" IN SelectSeq(lg, T)

RECURSIVE SumValues(_)
SumValues(es) ==
    IF es = <<>> THEN 0 ELSE es[1][3] + SumValues(Tail(es))

TotalPolls(lg) == SumValues(Waits(lg))

\* The data register reads of the call.
Reads(lg) == LET T(e) == e[1] = "R" IN SelectSeq(lg, T)

SpiDone == pc = "done" /\ op \in SpiOps
SpiSuccess == SpiDone /\ ~stall
SpiTimedOut == SpiDone /\ stall

\* SPI_Init sets bits of configValue (SPE, Master, ...) and nothing clears them.
SpiInitialised == configValue # 0

(***************************************************************************)
(* C1: for every count in 1..255, an SPI transfer whose waits all see the  *)
(* status ready before the counter is exhausted returns exactly count, and *)
(* buffer[0..count-1] holds, in order, the values popped from the receive  *)
(* register during the call.                                               *)
(* Fails: the return type is char, and count 255 comes back as -1.         *)
(***************************************************************************)
C1_SuccessReturnsCountAndPopped ==
    (SpiSuccess /\ bytesNumber >= 1) =>
        /\ ret = bytesNumber
        /\ SubSeq(data, 1, bytesNumber) = Popped(log, "SPIDRR")

(***************************************************************************)
(* C2: once SPI_Init has run, a transfer whose wait never sees the status  *)
(* ready returns -1, and at its return the last value written to the      *)
(* slave-select register is all ones and the last value written to the     *)
(* control register has the transaction-inhibit bit set; the word the next *)
(* call writes first (configValue) has the inhibit bit set too.            *)
(***************************************************************************)
C2_TimeoutLeavesDeselectedInhibited ==
    (SpiTimedOut /\ SpiInitialised) =>
        /\ ret = 0 - 1
        /\ reg.SPISSR = AllOnes
        /\ Bit(reg.SPICR, MasterTranInh) = 1
        /\ Bit(configValue, MasterTranInh) = 1

\* A transfer that timed out on its second byte, after SPI_Init.
C2_Witness ==
    /\ SpiTimedOut
    /\ SpiInitialised
    /\ rxCnt = 1
    /\ ret = 0 - 1

(***************************************************************************)
(* C3: for every count in 1..255 the value a successful transfer of count  *)
(* bytes returns (bytesNumber converted to char) differs from the value    *)
(* returned on timeout (-1 converted to char).                             *)
(* Fails for count 255.                                                    *)
(***************************************************************************)
C3_TimeoutValueDistinguished ==
    (SpiSuccess /\ bytesNumber \in 1 .. 255) => ret # SPI_RetTimeout

(***************************************************************************)
(* C4, as amended: for every count >= 1, I2C_Read against a slave that     *)
(* stalls from the start returns a value strictly less than count, and the *)
(* number of status-register polls it performs before returning is at most *)
(* the timeout ceiling plus one (0xFFFFFF + 1: the poll made with the      *)
(* counter at 0 is still made).                                            *)
(***************************************************************************)
\* An I2C_Read that returned after its first wait saw busy on every poll.
I2cReadStalled ==
    /\ pc = "done"
    /\ op = "I2C_Read"
    /\ bytesNumber >= 1
    /\ stall
    /\ Len(Waits(log)) = 1

C4_StalledReadShortWithinCeilingPlusOne ==
    I2cReadStalled =>
        /\ ret < bytesNumber
        /\ TotalPolls(log) <= I2C_TIMEOUT + 1

\* C4 as stated: at most the timeout ceiling polls.
C4_StalledReadWithinCeiling ==
    I2cReadStalled =>
        /\ ret < bytesNumber
        /\ TotalPolls(log) <= I2C_TIMEOUT

\* A stalled read of two bytes that returned 0 after 0x1000000 polls.
C4_Witness ==
    /\ I2cReadStalled
    /\ bytesNumber = 2
    /\ ret = 0
    /\ TotalPolls(log) = I2C_TIMEOUT + 1

(***************************************************************************)
(* C5: I2C_Write returns count for every count in 1..255, every slave      *)
(* address, every buffer content and every peripheral behaviour: it never  *)
(* reads a register, and performs exactly count + 1 pushes into the        *)
(* transmit FIFO, the address command followed by the count data bytes in  *)
(* buffer order.                                                           *)
(***************************************************************************)
I2cWriteDone == pc = "done" /\ op = "I2C_Write"

C5_WriteReturnsCountAfterCountPlusOnePushes ==
    (I2cWriteDone /\ bytesNumber >= 1) =>
        LET tx == Pushed(log, "TX_FIFO") IN
        /\ ret = bytesNumber
        /\ Reads(log) = <<>>
        /\ Waits(log) = <<>>
        /\ Len(tx) = bytesNumber + 1
        /\ tx[1] = 256 + 2 * slave
        /\ \A i \in 1 .. bytesNumber : tx[i + 1] % 256 = data0[i]

\* A completed write of 255 bytes.
C5_Witness ==
    /\ I2cWriteDone
    /\ bytesNumber = 255
    /\ ret = 255
    /\ Len(Pushed(log, "TX_FIFO")) = 256

(***************************************************************************)
(* C6: in I2C_Write with count >= 1, exactly one transmit-FIFO data push   *)
(* carries the stop marker bit 0x200: it is the push of buffer[count-1]    *)
(* and the last push of the call; every push of buffer[i] with             *)
(* i < count-1 carries the byte value without the marker.                  *)
(***************************************************************************)
\* Bit 9 is the stop marker 0x200.
HasStop(w) == Bit(w, 9) = 1

C6_StopMarkerOnLastByteOnly ==
    (op = "I2C_Write" /\ bytesNumber >= 1) =>
        LET tx == Pushed(log, "TX_FIFO") IN
        /\ \A i \in 1 .. Len(tx) : HasStop(tx[i]) <=> (i = bytesNumber + 1)
        /\ \A i \in 2 .. Len(tx) :
               tx[i] = IF i = bytesNumber + 1
                       THEN I2C_STOP + data0[i - 1] ELSE data0[i - 1]
        /\ Len(tx) <= bytesNumber + 1
        /\ pc = "done" =>
               /\ Len(tx) = bytesNumber + 1
               /\ Cardinality({i \in 1 .. Len(tx) : HasStop(tx[i])}) = 1

\* A completed write of two bytes: the second push is plain, the third marked.
C6_Witness ==
    /\ I2cWriteDone
    /\ bytesNumber = 2
    /\ ~HasStop(Pushed(log, "TX_FIFO")[2])
    /\ HasStop(Pushed(log, "TX_FIFO")[3])

(***************************************************************************)
(* C7: stopBit has no effect on I2C_Read and I2C_Write.  The register      *)
(* accesses of a call, its buffer and its return value are given here as   *)
(* functions of slaveAddress, the buffer passed, bytesNumber and the       *)
(* peripheral's answers alone.  Every call follows them, with stopBit 0    *)
(* and with stopBit 1, so two calls that differ only in stopBit and meet   *)
(* the same answers make the same accesses in the same order, leave the    *)
(* same buffer and return the same value.                                  *)
(***************************************************************************)
\* The accesses every I2C transfer starts with, the accesses after a wait
\* that timed out, and the last action of a transfer that got through.
RefEntry == << <<"W", "CR", 2>>, <<"W", "CR", 1>>, <<"D", "ms", 10>> >>

RefRecovery == << <<"W", "CR", 0>>, <<"W", "RX_FIFO_PIRQ", 15>>,
                  <<"W", "CR", 2>>, <<"W", "CR", 1>> >>

RefTrailer == << <<"D", "ms", 10>> >>

\* I2C_Write of the n bytes of buf to the slave addr (7 bits), after k data
\* words.
RefWriteLog(addr, buf, n, k, returned) ==
    RefEntry
    \o << <<"W", "TX_FIFO", 256 + 2 * addr>> >>
    \o [i \in 1 .. k |->
           <<"W", "TX_FIFO", IF i = n THEN 512 + buf[i] ELSE buf[i]>>]
    \o (IF returned THEN RefTrailer ELSE <<>>)

\* I2C_Read: the answers a are, in turn, for how many polls the status stays
\* busy in a wait and the value the pop that follows the wait delivers.
RefStalled(a) == Len(a) % 2 = 1 /\ a[Len(a)] > 16777215

RefReadBody(a) ==
    [j \in 1 .. Len(a) |->
        IF j % 2 = 1
        THEN <<"P", "SR", IF a[j] > 16777215 THEN 16777216 ELSE a[j] + 1>>
        ELSE <<"R", "RX_FIFO", a[j]>>]

RefReadLog(addr, n, a, returned) ==
    RefEntry
    \o << <<"W", "TX_FIFO", 257 + 2 * addr>>, <<"W", "TX_FIFO", 512 + n>> >>
    \o RefReadBody(a)
    \o (IF ~returned THEN <<>>
        ELSE IF RefStalled(a) THEN RefRecovery ELSE RefTrailer)

RefReadCount(a) == Len(a) \div 2

RefReadBuffer(buf, a) ==
    [i \in 1 .. Len(buf) |->
        IF i <= RefReadCount(a) THEN a[2 * i] % 256 ELSE buf[i]]

\* The call goes on exactly while no wait has stalled and bytes are missing.
RefReadReturns(n, a) == RefStalled(a) \/ Len(a) = 2 * n

C7_StopBitHasNoEffect ==
    /\ (op = "I2C_Write" /\ pc # "idle") =>
           /\ answers = <<>>
           /\ txCnt <= bytesNumber
           /\ log = RefWriteLog(slave, data0, bytesNumber, txCnt, pc = "done")
           /\ data = data0
           /\ (pc \in {"i2cw_end", "done"}) <=> (txCnt = bytesNumber)
           /\ (pc = "done") => (ret = bytesNumber)
    /\ (op = "I2C_Read" /\ pc # "idle") =>
           /\ Len(answers) <= 2 * bytesNumber
           /\ \A j \in 1 .. (Len(answers) - 1) :
                  (j % 2 = 1) => (answers[j] <= 16777215)
           /\ log = RefReadLog(slave, bytesNumber, answers, pc = "done")
           /\ data = RefReadBuffer(data0, answers)
           /\ (pc \in {"i2cr_end", "i2cr_timeout", "done"})
                  <=> RefReadReturns(bytesNumber, answers)
           /\ (pc = "done") => (ret = RefReadCount(answers))

\* A completed write of two bytes with stopBit 0: the stop marker is pushed
\* all the same.
C7_Witness ==
    /\ I2cWriteDone
    /\ stopBit = 0
    /\ bytesNumber = 2
    /\ HasStop(Pushed(log, "TX_FIFO")[3])
    /\ log = RefWriteLog(slave, data0, 2, 2, TRUE)

(***************************************************************************)
(* C8: at the start of an SPI transfer the slave-select register is        *)
(* written so that the select line of the slave slaveId is the one driven  *)
(* low and all other lines stay high; different slaveId values assert      *)
(* different lines.  Lines are taken as numbered from 0 or from 1.         *)
(* Fails: the value written is 0xFFFFFFFE for every slaveDeviceId.         *)
(***************************************************************************)
C8_SelectLineFollowsSlaveId ==
    (op \in SpiOps) =>
        LET ss == Pushed(log, "SPISSR")[1] IN
        \/ ss = Not32(Shl(1, slave))
        \/ ss = Not32(Shl(1, slave - 1))

(***************************************************************************)
(* C9: with count 0 none of SPI_Write, SPI_Read, I2C_Read and I2C_Write    *)
(* enters its loop: the call goes from its entry sequence straight to its  *)
(* exit sequence and returns, after at most 6 register accesses and        *)
(* delays, whatever the peripheral does.                                   *)
(***************************************************************************)
TransferOps == SpiOps \cup {"I2C_Read", "I2C_Write"}

C9_CountZeroTerminates ==
    (op \in TransferOps /\ bytesNumber = 0) =>
        /\ pc \in {"spi_end", "i2cr_end", "i2cw_end", "done"}
        /\ Len(log) <= 6
        /\ Waits(log) = <<>>

\* An SPI_Read of 0 bytes that has returned.
C9_Witness ==
    /\ pc = "done"
    /\ op = "SPI_Read"
    /\ bytesNumber = 0
    /\ ret = 0

(***************************************************************************)
(* C10: against the loopback slave, I2C_Write of N bytes followed by       *)
(* I2C_Read of N bytes returns N and fills the read buffer with the        *)
(* written bytes in the same order, for N in {1, 2, 16, 255}.              *)
(***************************************************************************)
RoundTripSizes == {1, 2, 16, 255}

\* A loopback read of as many bytes as the write before it wrote.
LoopbackReadDone ==
    /\ pc = "done"
    /\ op = "I2C_Read"
    /\ lb
    /\ bytesNumber = Len(txBuf)
    /\ bytesNumber \in RoundTripSizes

C10_LoopbackRoundTrip ==
    LoopbackReadDone =>
        /\ ret = bytesNumber
        /\ SubSeq(data, 1, bytesNumber) = txBuf

\* The round trip of 255 bytes.
C10_Witness ==
    /\ LoopbackReadDone
    /\ bytesNumber = 255
    /\ data = Ramp(255)
    /\ ret = 255

(***************************************************************************)
(* C11.  After any sequence of SPI_Init calls, configValue and the value   *)
(* SPI_Init wrote last to SPICR encode the lsbFirst, clockPol and          *)
(* NOT clockEdg of the most recent call, whatever earlier calls passed.    *)
(***************************************************************************)
SpiInitDone == pc = "done" /\ op = "SPI_Init"

C11_ConfigEncodesLastInit ==
    SpiInitDone =>
        /\ Bit(configValue, LSBFirst) = initArgs[1]
        /\ Bit(configValue, CPOL) = initArgs[2]
        /\ Bit(configValue, CHPA) = LNot(initArgs[3])
        /\ reg.SPICR = configValue
        /\ log[Len(log)] = <<"W", "SPICR", configValue>>

(***************************************************************************)
(* C12.  When a per-byte wait of SPI_Write or SPI_Read exhausts its        *)
(* counter, the call makes exactly four register writes after the failed   *)
(* wait and then returns: SPICR with the inhibit bit set, SRR 0x0A, SPISSR *)
(* all ones, SPICR again with the same word.  Nothing is popped from the   *)
(* receive register or pushed into the transmit register after the wait.   *)
(***************************************************************************)
C12_TimeoutRecoverySequence ==
    SpiTimedOut =>
        LET n == Len(log)
            word == SetBit(configValue, MasterTranInh)
        IN  /\ n >= 5
            /\ log[n - 4][1] = "P"
            /\ log[n - 4][3] = SPI_TIMEOUT + 1
            /\ SubSeq(log, n - 3, n) = << <<"W", "SPICR", word>>,
                                          <<"W", "SRR", 10>>,
                                          <<"W", "SPISSR", AllOnes>>,
                                          <<"W", "SPICR", word>> >>
            /\ Bit(word, MasterTranInh) = 1
            /\ Len(Popped(log, "SPIDRR")) = rxCnt
            /\ Len(Pushed(log, "SPIDTR")) = txCnt + 1

C12_Witness ==
    /\ SpiTimedOut
    /\ SpiInitialised
    /\ bytesNumber = 2
    /\ rxCnt = 1
    /\ log[Len(log) - 2] = <<"W", "SRR", 10>>

(***************************************************************************)
(* C13.  Once SPI_Init has run: the inhibit bit of the word last written   *)
(* to SPICR is set whenever no transfer is in progress, and it is set at   *)
(* every push into the transmit register.  It is clear only inside a       *)
(* transfer, from the write that follows a push until the inhibit write    *)
(* that closes that byte's wait, so every inhibit-cleared period starts    *)
(* right after one push and contains at most one wait, at most one pop and *)
(* no push (with bytesNumber 0 it is closed at once, without a wait).      *)
(***************************************************************************)
InhibitSet(v) == Bit(v, MasterTranInh) = 1

IsWrite(e, r) == e[1] = "W" /\ e[2] = r

SpiRunning == pc \in {"spi_wait", "spi_xfer", "spi_timeout", "spi_end"}

\* The SPICR write in force at the push at position i of the log.
CrBeforePush(i) == IF IsWrite(log[i - 1], "SPICR") THEN i - 1 ELSE i - 2

PushUnderInhibit(i) ==
    /\ i >= 2
    /\ CrBeforePush(i) >= 1
    /\ IsWrite(log[CrBeforePush(i)], "SPICR")
    /\ InhibitSet(log[CrBeforePush(i)][3])
    /\ \A j \in (CrBeforePush(i) + 1) .. (i - 1) : IsWrite(log[j], "SPISSR")

\* The period opened by the inhibit-clearing write at position i of the log.
ClearedPeriodOk(i) ==
    LET n == Len(log)
        closes(k) == IsWrite(log[k], "SPICR") /\ InhibitSet(log[k][3])
        pops(k) == log[k][1] = "R" /\ log[k][2] = "SPIDRR"
    IN  /\ i >= 2
        /\ IsWrite(log[i - 1], "SPIDTR")
        /\ (i + 1 <= n) => (closes(i + 1) \/ log[i + 1][1] = "P")
        /\ (i + 2 <= n) => (closes(i + 1) \/ closes(i + 2) \/ pops(i + 2))
        /\ (i + 3 <= n) => (closes(i + 1) \/ closes(i + 2) \/ closes(i + 3))

C13_InhibitBracketsEveryPush ==
    SpiInitialised =>
        /\ (~SpiRunning) => InhibitSet(reg.SPICR)
        /\ (~InhibitSet(reg.SPICR)) => (SpiRunning /\ op \in SpiOps)
        /\ (op \in SpiOps) =>
              \A i \in DOMAIN log :
                  /\ IsWrite(log[i], "SPIDTR") => PushUnderInhibit(i)
                  /\ (IsWrite(log[i], "SPICR") /\ ~InhibitSet(log[i][3]))
                        => ClearedPeriodOk(i)

C13_Witness ==
    /\ SpiInitialised
    /\ pc = "spi_wait"
    /\ txCnt = 1
    /\ ~InhibitSet(reg.SPICR)
    /\ Len(Pushed(log, "SPIDTR")) = 2

(***************************************************************************)
(* C14.  At the start of every per-byte wait the timeout counter equals    *)
(* its ceiling: 0xFFFF in SPI_Write and SPI_Read, 0xFFFFFF in I2C_Read,    *)
(* whatever the earlier waits of the call used up.                         *)
(***************************************************************************)
C14_WaitStartsAtCeiling ==
    /\ (pc = "spi_wait") => (timeout = 65535)
    /\ (pc = "i2cr_wait") => (timeout = 16777215)

\* The second wait of a call starts after a first wait that used up the
\* whole budget (ready on the poll made with the counter at 0).
C14_Witness ==
    /\ pc \in {"spi_wait", "i2cr_wait"}
    /\ rxCnt = 1
    /\ Len(Waits(log)) = 1
    /\ Waits(log)[1][3] = (IF pc = "spi_wait" THEN 65535 ELSE 16777215) + 1
    /\ timeout = (IF pc = "spi_wait" THEN 65535 ELSE 16777215)

(***************************************************************************)
(* C15.  After a per-byte wait of SPI_Write, SPI_Read or I2C_Read the test *)
(* timeout == -1 is true exactly when the status was not ready on every    *)
(* poll of the wait, down to the poll made with the counter at 0.  A       *)
(* status that becomes ready on any poll, the last one included, leaves    *)
(* the counter in 0..ceiling and the call goes on with the byte.           *)
(***************************************************************************)
AfterWait == pc \in {"spi_xfer", "spi_timeout", "i2cr_pop", "i2cr_timeout"}

Ceiling == IF op \in SpiOps THEN SPI_TIMEOUT ELSE I2C_TIMEOUT

C15_TimeoutIffNeverReady ==
    AfterWait =>
        LET polls == log[Len(log)][3] IN
        /\ log[Len(log)][1] = "P"
        /\ TimedOut(timeout) <=> stall
        /\ (pc \in {"spi_timeout", "i2cr_timeout"}) <=> stall
        /\ stall => (polls = Ceiling + 1)
        /\ (~stall) => /\ polls \in 1 .. (Ceiling + 1)
                       /\ timeout = Ceiling - (polls - 1)

\* The status becomes ready on the poll made with the counter at 0.
C15_Witness ==
    /\ pc \in {"spi_xfer", "i2cr_pop"}
    /\ ~stall
    /\ timeout = 0
    /\ log[Len(log)] = <<"P", IF op \in SpiOps THEN "SPISR" ELSE "SR",
                          Ceiling + 1>>

(***************************************************************************)
(* C16.  An SPI transfer mutates the persisted configuration word: the     *)
(* static follows the changes the transfer makes to its working word, so   *)
(* a later transfer starts from them.                                      *)
(* Fails: the transfer changes the local cfgValue only.                    *)
(***************************************************************************)
SpiInCall == op \in SpiOps /\ pc # "idle"

C16_TransferMutatesConfigValue ==
    SpiInCall => (configValue = cfgValue)

(***************************************************************************)
(* C16, as the code has it.  An SPI transfer leaves the persisted          *)
(* configuration word alone: all through the call and after it             *)
(* configValue is the value the call read at entry (the word of its first  *)
(* SPICR write), whatever the transfer did to its working copy.            *)
(***************************************************************************)
C16_TransferKeepsConfigValue ==
    SpiInCall => (configValue = log[1][3] /\ IsWrite(log[1], "SPICR"))

\* A two-byte transfer has returned after writing other words to SPICR.
C16_Witness ==
    /\ SpiSuccess
    /\ SpiInitialised
    /\ bytesNumber = 2
    /\ configValue = log[1][3]
    /\ \E i \in DOMAIN log : IsWrite(log[i], "SPICR") /\ log[i][3] # configValue

(***************************************************************************)
(* C17.  Every I2C_Read and I2C_Write call starts with the same accesses,  *)
(* in order: 0x02 to CR (reset), 0x01 to CR (enable), a 10 ms delay, and   *)
(* only then the first push into TX_FIFO, the address command.  A call     *)
(* that gets through all its bytes ends with one more 10 ms delay as its   *)
(* last action; an I2C_Read that times out returns after the recovery      *)
(* writes, without a trailing delay.                                       *)
(***************************************************************************)
I2cXferOps == {"I2C_Read", "I2C_Write"}

I2cAddrWord ==
    IF op = "I2C_Read" THEN 257 + 2 * slave ELSE 256 + 2 * slave

Delays(lg) == Entries(lg, "D", "ms")

C17_EntrySequenceAndTrailingDelay ==
    (op \in I2cXferOps /\ pc # "idle") =>
        /\ Len(log) >= 4
        /\ SubSeq(log, 1, 4) = << <<"W", "CR", 2>>,
                                  <<"W", "CR", 1>>,
                                  <<"D", "ms", 10>>,
                                  <<"W", "TX_FIFO", I2cAddrWord>> >>
        /\ (pc = "done" /\ ~stall) =>
               /\ log[Len(log)] = <<"D", "ms", 10>>
               /\ Len(Delays(log)) = 2
        /\ (pc = "done" /\ stall) =>
               /\ op = "I2C_Read"
               /\ log[Len(log)] = <<"W", "CR", 1>>
               /\ Len(Delays(log)) = 1
        /\ (pc # "done") => (Len(Delays(log)) = 1)

C17_Witness ==
    /\ op = "I2C_Read"
    /\ pc = "done"
    /\ ~stall
    /\ bytesNumber = 2
    /\ rxCnt = 2
    /\ log[3] = <<"D", "ms", 10>>
    /\ log[Len(log)] = <<"D", "ms", 10>>

(***************************************************************************)
(* C18.  When I2C_Read times out after k bytes were received               *)
(* (0 <= k < count) it returns exactly k; buffer[0..k-1] holds the k bytes *)
(* popped from RX_FIFO in order and buffer[k..count-1] is as it was before *)
(* the call; after the failed wait the call writes, in order, 0x00 to CR,  *)
(* 0x0F to RX_FIFO_PIRQ, 0x02 to CR and 0x01 to CR, and nothing else, so   *)
(* the core is left enabled.                                               *)
(***************************************************************************)
I2cReadTimedOut == pc = "done" /\ op = "I2C_Read" /\ stall

C18_ShortReadOnTimeout ==
    I2cReadTimedOut =>
        LET n == Len(log)
            k == rxCnt
            popped == Popped(log, "RX_FIFO")
        IN  /\ 0 <= k /\ k < bytesNumber
            /\ ret = k
            /\ Len(popped) = k
            /\ \A i \in 1 .. k : data[i] = popped[i] % 256
            /\ \A i \in (k + 1) .. Len(data) : data[i] = data0[i]
            /\ Len(data) = Len(data0)
            /\ n >= 5
            /\ log[n - 4] = <<"P", "SR", 16777215 + 1>>
            /\ SubSeq(log, n - 3, n) = << <<"W", "CR", 0>>,
                                          <<"W", "RX_FIFO_PIRQ", 15>>,
                                          <<"W", "CR", 2>>,
                                          <<"W", "CR", 1>> >>

\* A read of two bytes timed out waiting for the second one.
C18_Witness ==
    /\ I2cReadTimedOut
    /\ bytesNumber = 2
    /\ rxCnt = 1
    /\ ret = 1
    /\ data[1] # data0[1]
    /\ data[2] = data0[2]

(***************************************************************************)
(* C19.  In an SPI transfer with count >= 1: at the head of every loop     *)
(* iteration txCnt equals rxCnt (and is below count); every buffer index   *)
(* the call reads or writes is in 0..count-1; on a successful return       *)
(* txCnt and rxCnt both equal count.                                       *)
(***************************************************************************)
C19_CountsInStepIndicesInRange ==
    (op \in SpiOps /\ pc # "idle" /\ bytesNumber >= 1) =>
        /\ (pc = "spi_wait") => (txCnt = rxCnt /\ txCnt < bytesNumber)
        /\ (pc = "spi_xfer") => (txCnt = rxCnt /\ txCnt < bytesNumber)
        /\ touched \subseteq 0 .. (bytesNumber - 1)
        /\ rxCnt = Len(Popped(log, "SPIDRR"))
        /\ SpiSuccess => (txCnt = bytesNumber /\ rxCnt = bytesNumber)
        /\ SpiSuccess => (touched = 0 .. (bytesNumber - 1))

\* The head of the second iteration of a two-byte transfer.
C19_Witness ==
    /\ op \in SpiOps
    /\ pc = "spi_wait"
    /\ bytesNumber = 2
    /\ txCnt = 1
    /\ rxCnt = 1
    /\ touched = {0, 1}

(***************************************************************************)
(* C20.  An SPI transfer of count >= 1 bytes overwrites the buffer in      *)
(* place with the received bytes, yet the values it pushes into SPIDTR are *)
(* exactly the caller's original buffer[0], buffer[1], ... in index order: *)
(* no received byte is transmitted.  This holds for the whole buffer on    *)
(* success and for the prefix pushed before a timeout.                     *)
(***************************************************************************)
C20_PushesAreOriginalBuffer ==
    (op \in SpiOps /\ pc # "idle" /\ bytesNumber >= 1) =>
        LET pushed == Pushed(log, "SPIDTR") IN
        /\ Len(pushed) <= bytesNumber
        /\ Len(pushed) = (IF txCnt < bytesNumber THEN txCnt + 1 ELSE txCnt)
        /\ pushed = SubSeq(data0, 1, Len(pushed))
        /\ SpiSuccess => (pushed = SubSeq(data0, 1, bytesNumber))

\* Both bytes of a two-byte transfer were overwritten by received bytes.
C20_Witness ==
    /\ SpiSuccess
    /\ bytesNumber = 2
    /\ data[1] # data0[1]
    /\ data[2] # data0[2]
    /\ Pushed(log, "SPIDTR") = data0

====
